---- MODULE Spec2Model ----
(***************************************************************************)
(* Online Retail cleaner (clean.py) and validator (validation.py).         *)
(*                                                                         *)
(* A DataFrame is [cols |-> sequence of column names, rows |-> sequence of *)
(* rows], a row being a function from column name to cell.  A cell is a    *)
(* tagged value: NaN, a string (a sequence of characters), a number, a     *)
(* boolean, a timestamp or a calendar date.  A CSV file on disk has the    *)
(* same shape with every cell a text (a sequence of characters).           *)
(* Numbers are integers; a timestamp is month, day and hour of one year.   *)
(***************************************************************************)
EXTENDS Integers, Sequences, FiniteSets, TLC

VARIABLES
    pc,        \* position in clean.main() followed by validation.main()
    args,      \* parsed command line: [parquet, dims], each 0 or 1
    disk,      \* the file system: a function from the names of the files that exist
    raw,       \* main(): raw
    df,        \* main(): df
    sales,     \* main(): sales
    returns,   \* main(): returns
    extras,    \* main(): extras (NoExtras for None)
    log,       \* what was printed, as a sequence of tags
    exc,       \* the exception that ended the run, or NoExc
    report     \* what run_validation returned, or NoReport

vars == <<pc, args, disk, raw, df, sales, returns, extras, log, exc, report>>

----------------------------------------------------------------------------
(* Cells *)

NaN == [k |-> "na", v |-> 0]
S(t) == [k |-> "str", v |-> t]
N(n) == [k |-> "num", v |-> n]
B(b) == [k |-> "bool", v |-> b]
TS(m, d, h) == [k |-> "ts", v |-> <<m, d, h>>]
DT(m, d) == [k |-> "date", v |-> <<m, d>>]

IsNa(c) == c.k = "na"

----------------------------------------------------------------------------
(* Text *)

SP == " "
TAB == "\t"
\* the characters Python's str.strip() removes that the model's texts use
Whitespace == {SP, TAB}

DigitChars == <<"0", "1", "2", "3", "4", "5", "6", "7", "8", "9">>
IsDigit(c) == \E i \in 1..Len(DigitChars) : DigitChars[i] = c
DigitVal(c) == (CHOOSE i \in 1..Len(DigitChars) : DigitChars[i] = c) - 1

IsNatText(t) == Len(t) > 0 /\ \A i \in 1..Len(t) : IsDigit(t[i])
IsNumText(t) == IsNatText(t) \/ (Len(t) > 1 /\ t[1] = "-" /\ IsNatText(Tail(t)))

RECURSIVE NatOf(_)
NatOf(t) ==
    IF Len(t) = 0 THEN 0
    ELSE 10 * NatOf(SubSeq(t, 1, Len(t) - 1)) + DigitVal(t[Len(t)])

NumOf(t) == IF t[1] = "-" THEN 0 - NatOf(Tail(t)) ELSE NatOf(t)

RECURSIVE NatText(_)
NatText(n) ==
    IF n < 10 THEN <<DigitChars[n + 1]>>
    ELSE NatText(n \div 10) \o <<DigitChars[(n % 10) + 1]>>

NumText(n) == IF n < 0 THEN <<"-">> \o NatText(0 - n) ELSE NatText(n)

TwoDigits(n) == <<DigitChars[(n \div 10) + 1], DigitChars[(n % 10) + 1]>>

\* a timestamp text is MM-DD or MM-DD HH
IsDateText(t) ==
    /\ Len(t) \in {5, 8}
    /\ IsNatText(SubSeq(t, 1, 2)) /\ t[3] = "-" /\ IsNatText(SubSeq(t, 4, 5))
    /\ NatOf(SubSeq(t, 1, 2)) \in 1..12
    /\ NatOf(SubSeq(t, 4, 5)) \in 1..28
    /\ Len(t) = 8 => /\ t[6] = SP
                     /\ IsNatText(SubSeq(t, 7, 8))
                     /\ NatOf(SubSeq(t, 7, 8)) \in 0..23

DateOf(t) ==
    TS(NatOf(SubSeq(t, 1, 2)), NatOf(SubSeq(t, 4, 5)),
       IF Len(t) = 8 THEN NatOf(SubSeq(t, 7, 8)) ELSE 0)

TrueText == <<"T", "r", "u", "e">>
FalseText == <<"F", "a", "l", "s", "e">>
NanText == <<"n", "a", "n">>

RECURSIVE LStrip(_)
LStrip(t) == IF Len(t) > 0 /\ t[1] \in Whitespace THEN LStrip(Tail(t)) ELSE t

RECURSIVE RStrip(_)
RStrip(t) ==
    IF Len(t) > 0 /\ t[Len(t)] \in Whitespace
    THEN RStrip(SubSeq(t, 1, Len(t) - 1))
    ELSE t

\* str.strip()
Strip(t) == RStrip(LStrip(t))

\* str.startswith(p)
StartsWith(t, p) == Len(t) >= Len(p) /\ SubSeq(t, 1, Len(p)) = p

----------------------------------------------------------------------------
(* Sequences *)

SeqMap(f(_), s) == [i \in 1..Len(s) |-> f(s[i])]
Range(s) == {s[i] : i \in 1..Len(s)}


----------------------------------------------------------------------------
(* CSV: DataFrame.to_csv(index=False) and pandas.read_csv *)

NoDF == [cols |-> <<>>, rows |-> <<>>]

\* how to_csv renders one cell
FormatCell(c) ==
    CASE c.k = "na" -> <<>>
      [] c.k = "str" -> c.v
      [] c.k = "num" -> NumText(c.v)
      [] c.k = "bool" -> IF c.v THEN TrueText ELSE FalseText
      [] c.k = "ts" -> TwoDigits(c.v[1]) \o <<"-">> \o TwoDigits(c.v[2])
                       \o <<SP>> \o TwoDigits(c.v[3])
      [] c.k = "date" -> TwoDigits(c.v[1]) \o <<"-">> \o TwoDigits(c.v[2])

ToCsv(d) ==
    [cols |-> d.cols,
     rows |-> [i \in 1..Len(d.rows) |->
                 [c \in DOMAIN d.rows[i] |-> FormatCell(d.rows[i][c])]]]

\* the dtype read_csv infers for column c of file f
ColKind(f, c) ==
    LET cells == {f.rows[i][c] : i \in 1..Len(f.rows)} IN
    IF cells = {} THEN "object"
    ELSE IF \A t \in cells : t = <<>> \/ IsNumText(t) THEN "num"
    ELSE IF \A t \in cells : t \in {TrueText, FalseText} THEN "bool"
    ELSE IF \A t \in cells : t \in {TrueText, FalseText, <<>>} THEN "boolna"
    ELSE "object"

\* an empty field is NaN; a numeric column holds numbers, a True/False column
\* booleans (objects when NaN is among them), any other column strings
ReadCell(kind, t) ==
    IF t = <<>> THEN NaN
    ELSE CASE kind = "num" -> N(NumOf(t))
           [] kind \in {"bool", "boolna"} -> B(t = TrueText)
           [] OTHER -> S(t)

ReadCsv(f) ==
    [cols |-> f.cols,
     rows |-> [i \in 1..Len(f.rows) |->
                 [c \in DOMAIN f.rows[i] |-> ReadCell(ColKind(f, c), f.rows[i][c])]]]

----------------------------------------------------------------------------
(* clean.py: basic_clean *)

\* pd.to_numeric(errors="coerce") on one cell
ToNumericCoerce(c) ==
    CASE c.k = "num" -> c
      [] c.k = "str" -> IF IsNumText(c.v) THEN N(NumOf(c.v)) ELSE NaN
      [] OTHER -> NaN

\* whether pd.to_datetime can parse the cell (NaN parses, to NaT)
DatetimeParses(c) ==
    \/ c.k \in {"na", "ts"}
    \/ c.k = "str" /\ IsDateText(c.v)

\* pd.to_datetime(errors="coerce") on one cell
ToDatetimeCoerce(c) ==
    CASE c.k = "ts" -> c
      [] c.k = "str" -> IF IsDateText(c.v) THEN DateOf(c.v) ELSE NaN
      [] OTHER -> NaN

\* astype(str) on one cell
AsStr(c) ==
    CASE c.k = "na" -> NanText
      [] c.k = "str" -> c.v
      [] OTHER -> FormatCell(c)

\* .str.strip() on one cell of an object column
StrStrip(c) == IF c.k = "str" THEN S(Strip(c.v)) ELSE NaN

\* quantity * unit_price, NaN propagating
Times(a, b) == IF a.k = "num" /\ b.k = "num" THEN N(a.v * b.v) ELSE NaN

CleanCols ==
    <<"invoice_no", "stock_code", "description", "quantity", "invoice_date",
      "unit_price", "customer_id", "country", "is_credit_note", "line_total",
      "invoice_date_date", "invoice_ym">>

\* lines 18-33: rename and coerce the dtypes of one row
RenameCoerce(r) ==
    [invoice_no |-> r.InvoiceNo,
     stock_code |-> r.StockCode,
     description |-> r.Description,
     quantity |-> ToNumericCoerce(r.Quantity),
     invoice_date |-> ToDatetimeCoerce(r.InvoiceDate),
     unit_price |-> ToNumericCoerce(r.UnitPrice),
     customer_id |-> ToNumericCoerce(r.CustomerID),
     country |-> r.Country]

\* line 36 with description left out of the subset
DropnaKeepsIgnoringDescription(r) == ~IsNa(r.invoice_date) /\ ~IsNa(r.stock_code)

\* line 36: the row survives dropna(subset=[invoice_date, stock_code, description])
DropnaKeeps(r) ==
    ~IsNa(r.invoice_date) /\ ~IsNa(r.stock_code) /\ ~IsNa(r.description)

\* lines 39-47: text hygiene and the derived fields of one row
Hygiene(r) ==
    LET t == [r EXCEPT !.description = StrStrip(r.description),
                       !.stock_code = S(Strip(AsStr(r.stock_code))),
                       !.country = S(Strip(AsStr(r.country)))]
    IN  [c \in Range(CleanCols) |->
           CASE c = "is_credit_note" -> B(StartsWith(AsStr(t.invoice_no), <<"C">>))
             [] c = "line_total" -> Times(t.quantity, t.unit_price)
             [] c = "invoice_date_date" ->
                  DT(t.invoice_date.v[1], t.invoice_date.v[2])
             [] c = "invoice_ym" -> S(TwoDigits(t.invoice_date.v[1]))
             [] OTHER -> t[c]]

basic_clean(rawdf) ==
    LET coerced == SeqMap(RenameCoerce, rawdf.rows)
        kept == SelectSeq(coerced, DropnaKeeps)
    IN  [cols |-> CleanCols, rows |-> SeqMap(Hygiene, kept)]

----------------------------------------------------------------------------
(* clean.py: split_sales_returns *)

\* a comparison with NaN is False
Gt0(c) == c.k = "num" /\ c.v > 0
Le0(c) == c.k = "num" /\ c.v <= 0

\* line 55 without its unit_price test
SalesMaskIgnoringPrice(r) == ~r.is_credit_note.v /\ Gt0(r.quantity)

\* line 55
SalesMask(r) == ~r.is_credit_note.v /\ Gt0(r.quantity) /\ Gt0(r.unit_price)

\* line 56
ReturnsMask(r) == r.is_credit_note.v \/ Le0(r.quantity) \/ Le0(r.unit_price)

\* the pair (sales, returns)
split_sales_returns(d) ==
    <<[cols |-> d.cols, rows |-> SelectSeq(d.rows, SalesMask)],
      [cols |-> d.cols, rows |-> SelectSeq(d.rows, ReturnsMask)]>>

----------------------------------------------------------------------------
(* clean.py: build_dimensions *)

Project(r, cs) == [c \in Range(cs) |-> r[c]]

\* .drop_duplicates(): the first occurrence of every row, in order
RECURSIVE DropDuplicates(_)
DropDuplicates(s) ==
    IF Len(s) = 0 THEN <<>>
    ELSE LET init == DropDuplicates(SubSeq(s, 1, Len(s) - 1))
             last == s[Len(s)]
         IN  IF last \in Range(init) THEN init ELSE Append(init, last)

\* timestamps compare by month, day, hour
TsLeq(a, b) ==
    \/ a.v[1] < b.v[1]
    \/ a.v[1] = b.v[1] /\ a.v[2] < b.v[2]
    \/ a.v[1] = b.v[1] /\ a.v[2] = b.v[2] /\ a.v[3] <= b.v[3]

Perms(n) == {p \in [1..n -> 1..n] : \A i, j \in 1..n : p[i] = p[j] => i = j}

\* line 69 left out: the rows stay in drop_duplicates order
SortValuesKeepingOrder(s, key) == {s}

\* .sort_values(key) with the default kind="quicksort", which is not stable:
\* every ordering of the rows that ascends by key is a possible result
SortValues(s, key) ==
    {[i \in 1..Len(s) |-> s[p[i]]] : p \in
        {q \in Perms(Len(s)) :
            \A i \in 1..Len(s) - 1 : TsLeq(s[q[i]][key], s[q[i + 1]][key])}}

sales_with_cust(sl) ==
    [cols |-> sl.cols,
     rows |-> SelectSeq(sl.rows, LAMBDA r : ~IsNa(r.customer_id))]

ProductCols == <<"stock_code", "description">>
CustomerCols == <<"customer_id", "country">>
InvoiceCols == <<"invoice_no", "invoice_date">>

dim_products(sl) ==
    [cols |-> ProductCols,
     rows |-> DropDuplicates(SeqMap(LAMBDA r : Project(r, ProductCols), sl.rows))]

dim_customers(sl) ==
    [cols |-> CustomerCols,
     rows |-> DropDuplicates(SeqMap(LAMBDA r : Project(r, CustomerCols),
                                    sales_with_cust(sl).rows))]

\* the possible dim_invoices tables
dim_invoices(sl) ==
    {[cols |-> InvoiceCols, rows |-> rs] : rs \in
        SortValues(DropDuplicates(SeqMap(LAMBDA r : Project(r, InvoiceCols),
                                         sl.rows)),
                   "invoice_date")}

\* the possible results of build_dimensions(sales)
build_dimensions(sl) ==
    {[fact_sales_lines_with_customer |-> sales_with_cust(sl),
      dim_products |-> dim_products(sl),
      dim_customers |-> dim_customers(sl),
      dim_invoices |-> di] : di \in dim_invoices(sl)}

ExtraNames ==
    <<"fact_sales_lines_with_customer", "dim_products", "dim_customers",
      "dim_invoices">>

NoExtras == <<>>

----------------------------------------------------------------------------
(* clean.py: main and save_outputs, step by step *)

RawPath == "OnlineRetail.csv"
SalesCsv == "fact_sales_lines.csv"
ReturnsCsv == "fact_returns_lines.csv"
SalesParquet == "fact_sales_lines.parquet"
ExtraCsv(name) == name \o ".csv"

NoExc == "none"
NoReport == [raised |-> FALSE, results |-> <<>>]

Exists(path) == path \in DOMAIN disk
WriteFile(d, path, content) == (path :> content) @@ d

\* lines 129-135: the raw file must exist
CheckRaw ==
    /\ pc = "start"
    /\ IF Exists(RawPath)
       THEN pc' = "load" /\ exc' = exc
       ELSE pc' = "raised" /\ exc' = "FileNotFoundError"
    /\ UNCHANGED <<args, disk, raw, df, sales, returns, extras, log, report>>

\* lines 9-13
load_raw(path) == ReadCsv(disk[path])

\* line 137: load_raw
LoadRaw ==
    /\ pc = "load"
    /\ raw' = load_raw(RawPath)
    /\ log' = Append(log, "load")
    /\ pc' = "clean"
    /\ UNCHANGED <<args, disk, df, sales, returns, extras, exc, report>>

\* line 138: basic_clean
BasicClean ==
    /\ pc = "clean"
    /\ df' = basic_clean(raw)
    /\ log' = Append(log, "clean")
    /\ pc' = "split"
    /\ UNCHANGED <<args, disk, raw, sales, returns, extras, exc, report>>

\* line 139: split_sales_returns
SplitSalesReturns ==
    /\ pc = "split"
    /\ sales' = split_sales_returns(df)[1]
    /\ returns' = split_sales_returns(df)[2]
    /\ log' = Append(log, "split")
    /\ pc' = "dims"
    /\ UNCHANGED <<args, disk, raw, df, extras, exc, report>>

\* line 141: build_dimensions when --dims is nonzero
BuildDimensions ==
    /\ pc = "dims"
    /\ IF args.dims # 0
       THEN extras' \in build_dimensions(sales)
       ELSE extras' = NoExtras
    /\ pc' = "save_csv"
    /\ UNCHANGED <<args, disk, raw, df, sales, returns, log, exc, report>>

\* lines 88-95: the two text artifacts
SaveCsv ==
    /\ pc = "save_csv"
    /\ disk' = WriteFile(WriteFile(disk, SalesCsv, ToCsv(sales)),
                         ReturnsCsv, ToCsv(returns))
    /\ log' = log \o <<"save sales_csv", "save returns_csv">>
    /\ pc' = "save_parquet"
    /\ UNCHANGED <<args, raw, df, sales, returns, extras, exc, report>>

\* lines 99-103 without the try: a failed write ends the run
ParquetNextEscaping(ok) == IF ok THEN "save_extras" ELSE "raised"

\* lines 99-103: where save_outputs goes on after the Parquet write, failed
\* or not
ParquetNext(ok) == "save_extras"

\* lines 97-103: the Parquet write, which may fail; the failure is caught
SaveParquet ==
    /\ pc = "save_parquet"
    /\ IF args.parquet # 0
       THEN \E ok \in BOOLEAN :
               /\ disk' = IF ok THEN WriteFile(disk, SalesParquet, sales) ELSE disk
               /\ log' = Append(log, IF ok THEN "save sales_parq"
                                           ELSE "warn parquet not written")
               /\ pc' = ParquetNext(ok)
       ELSE UNCHANGED <<disk, log>> /\ pc' = "save_extras"
    /\ UNCHANGED <<args, raw, df, sales, returns, extras, exc, report>>

RECURSIVE WriteExtras(_, _, _)
WriteExtras(d, ex, names) ==
    IF Len(names) = 0 THEN d
    ELSE WriteExtras(WriteFile(d, ExtraCsv(Head(names)), ToCsv(ex[Head(names)])),
                     ex, Tail(names))

\* lines 105-109 and 144: the extras, then "[done]"
SaveExtras ==
    /\ pc = "save_extras"
    /\ IF extras # NoExtras
       THEN /\ disk' = WriteExtras(disk, extras, ExtraNames)
            /\ log' = log \o SeqMap(LAMBDA n : "save " \o n, ExtraNames) \o <<"done">>
       ELSE /\ disk' = disk
            /\ log' = Append(log, "done")
    /\ pc' = "done"
    /\ UNCHANGED <<args, raw, df, sales, returns, extras, exc, report>>

----------------------------------------------------------------------------
(* validation.py *)

HasCol(d, c) == c \in Range(d.cols)

\* edges_spaces without its test of the last character
EdgesSpacesLeadingOnly(d, c) ==
    Cardinality({i \in 1..Len(d.rows) :
        LET t == AsStr(d.rows[i][c]) IN Len(t) > 0 /\ t[1] = SP})

\* edges_spaces: the number of values that begin or end with a space
edges_spaces(d, c) ==
    Cardinality({i \in 1..Len(d.rows) :
        LET t == AsStr(d.rows[i][c])
        IN  Len(t) > 0 /\ (t[1] = SP \/ t[Len(t)] = SP)})

\* lines 20-23: pd.concat([sales.assign(_source=..), returns.assign(_source=..)]):
\* the union of the columns, NaN where a frame lacks one
Concat(a, b) ==
    LET acols == Append(a.cols, "_source")
        bcols == Append(b.cols, "_source")
        cols == acols \o SelectSeq(bcols, LAMBDA c : c \notin Range(acols))
        Widen(r, src) ==
            [c \in Range(cols) |->
                IF c = "_source" THEN S(src)
                ELSE IF c \in DOMAIN r THEN r[c] ELSE NaN]
    IN  [cols |-> cols,
         rows |-> SeqMap(LAMBDA r : Widen(r, <<"s">>), a.rows)
                  \o SeqMap(LAMBDA r : Widen(r, <<"r">>), b.rows)]

required_cols ==
    <<"invoice_no", "stock_code", "description", "quantity", "invoice_date",
      "unit_price", "customer_id", "country", "is_credit_note", "line_total">>

\* sorted(required_cols)
SortedRequired ==
    <<"country", "customer_id", "description", "invoice_date", "invoice_no",
      "is_credit_note", "line_total", "quantity", "stock_code", "unit_price">>

\* the outcome of one rule: the CheckResult that add() appends, or an
\* exception that leaves run_validation
Added(name, ok, detail) ==
    [raise |-> FALSE, res |-> [check |-> name, ok |-> ok, detail |-> detail]]
Raises(name, col) ==
    [raise |-> TRUE, res |-> [check |-> name, ok |-> FALSE, detail |-> <<"KeyError", col>>]]

\* lines 36-37
ColumnsPresent(d) ==
    Added("columns_present",
          Range(required_cols) \subseteq Range(d.cols),
          SelectSeq(SortedRequired, LAMBDA c : c \notin Range(d.cols)))

AllNumeric(d, c) == \A i \in 1..Len(d.rows) : ~IsNa(ToNumericCoerce(d.rows[i][c]))

\* lines 40-46 with p_ok left out of the conjunction
DtypesBasicQuantityOnly(d) ==
    LET name == "dtypes_basic(invoice_date/quantity/unit_price)" IN
    IF ~HasCol(d, "invoice_date") THEN Added(name, FALSE, <<"'invoice_date'">>)
    ELSE IF \E i \in 1..Len(d.rows) : ~DatetimeParses(d.rows[i].invoice_date)
    THEN Added(name, FALSE, <<"cannot parse invoice_date">>)
    ELSE IF ~HasCol(d, "quantity") THEN Added(name, FALSE, <<"'quantity'">>)
    ELSE Added(name, AllNumeric(d, "quantity"), <<>>)

\* lines 40-46: the one rule inside try/except; a missing column or an
\* unparsable invoice_date raises, and the handler adds ok=False
DtypesBasic(d) ==
    LET name == "dtypes_basic(invoice_date/quantity/unit_price)" IN
    IF ~HasCol(d, "invoice_date") THEN Added(name, FALSE, <<"'invoice_date'">>)
    ELSE IF \E i \in 1..Len(d.rows) : ~DatetimeParses(d.rows[i].invoice_date)
    THEN Added(name, FALSE, <<"cannot parse invoice_date">>)
    ELSE IF ~HasCol(d, "quantity") THEN Added(name, FALSE, <<"'quantity'">>)
    ELSE IF ~HasCol(d, "unit_price") THEN Added(name, FALSE, <<"'unit_price'">>)
    ELSE Added(name, AllNumeric(d, "quantity") /\ AllNumeric(d, "unit_price"), <<>>)

\* lines 49-51
Trim(d, c) ==
    IF ~HasCol(d, c) THEN Raises("trim_" \o c, c)
    ELSE Added("trim_" \o c, edges_spaces(d, c) = 0, <<>>)

\* np.isclose(a, b, rtol=1e-6, atol=1e-9) on integers of the model's size is
\* equality; NaN is close to nothing
IsClose(a, b) == a.k = "num" /\ b.k = "num" /\ a.v = b.v

\* lines 54-58
LineTotalConsistency(d) ==
    LET name == "line_total_consistency" IN
    IF ~HasCol(d, "quantity") THEN Raises(name, "quantity")
    ELSE IF ~HasCol(d, "unit_price") THEN Raises(name, "unit_price")
    ELSE IF ~HasCol(d, "line_total") THEN Raises(name, "line_total")
    ELSE LET close(r) == IsClose(ToNumericCoerce(r.line_total),
                                 Times(ToNumericCoerce(r.quantity),
                                       ToNumericCoerce(r.unit_price)))
             bad == Cardinality({i \in 1..Len(d.rows) : ~close(d.rows[i])})
         IN  Added(name, bad = 0, <<"mismatches=">> \o NumText(bad))

\* astype(bool) on one cell: NaN and a non-empty string are truthy
AsBool(c) ==
    CASE c.k = "bool" -> c.v
      [] c.k = "num" -> c.v # 0
      [] OTHER -> TRUE

\* lines 61-66: the three rules over the Sales artifact alone; the three
\* values are computed before the first add()
SalesRules(sl) ==
    LET q == Added("quantity_positive_in_sales",
                   HasCol(sl, "quantity") /\
                   \A i \in 1..Len(sl.rows) : Gt0(ToNumericCoerce(sl.rows[i].quantity)),
                   <<>>)
        p == Added("unit_price_positive_in_sales",
                   HasCol(sl, "unit_price") /\
                   \A i \in 1..Len(sl.rows) : Gt0(ToNumericCoerce(sl.rows[i].unit_price)),
                   <<>>)
        c == Added("no_credit_notes_in_sales",
                   HasCol(sl, "is_credit_note") /\
                   \A i \in 1..Len(sl.rows) : ~AsBool(sl.rows[i].is_credit_note),
                   <<>>)
    IN  IF ~HasCol(sl, "quantity")
        THEN <<Raises("quantity_positive_in_sales", "quantity")>>
        ELSE IF ~HasCol(sl, "unit_price")
        THEN <<Raises("quantity_positive_in_sales", "unit_price")>>
        ELSE IF ~HasCol(sl, "is_credit_note")
        THEN <<Raises("quantity_positive_in_sales", "is_credit_note")>>
        ELSE <<q, p, c>>

\* line 69
ReturnsNonempty(rt) ==
    Added("returns_nonempty_expected", Len(rt.rows) > 0,
          <<"returns=">> \o NumText(Len(rt.rows)))

\* the rules in the order run_validation computes them
Rules(sl, rt) ==
    LET d == Concat(sl, rt) IN
    <<ColumnsPresent(d), DtypesBasic(d),
      Trim(d, "description"), Trim(d, "stock_code"), Trim(d, "country"),
      LineTotalConsistency(d)>>
    \o SalesRules(sl) \o <<ReturnsNonempty(rt)>>

\* lines 18-74: the report returned, or the exception raised by the first
\* rule that fails outside a try
run_validation(sfile, rfile) ==
    LET rules == Rules(ReadCsv(sfile), ReadCsv(rfile)) IN
    IF \E i \in 1..Len(rules) : rules[i].raise
    THEN LET first == CHOOSE i \in 1..Len(rules) :
                          rules[i].raise /\ \A j \in 1..(i - 1) : ~rules[j].raise
         IN  [raised |-> TRUE, results |-> <<>>, error |-> rules[first].res.detail]
    ELSE [raised |-> FALSE, results |-> SeqMap(LAMBDA x : x.res, rules),
          error |-> <<>>]

\* validation.main(): lines 15-16, then the rules
RunValidation ==
    /\ pc = "done"
    /\ IF ~Exists(SalesCsv) \/ ~Exists(ReturnsCsv)
       THEN /\ pc' = "raised" /\ exc' = "FileNotFoundError"
            /\ UNCHANGED <<report, log>>
       ELSE LET rep == run_validation(disk[SalesCsv], disk[ReturnsCsv]) IN
            /\ report' = rep
            /\ IF rep.raised
               THEN pc' = "raised" /\ exc' = "KeyError" /\ log' = log
               ELSE /\ pc' = "validated" /\ exc' = exc
                    /\ log' = Append(log, "validation done")
    /\ UNCHANGED <<args, disk, raw, df, sales, returns, extras>>

----------------------------------------------------------------------------
(* Inputs *)

MaxRows == 2
MaxDimRows == 3
MaxValRows == 2

Date1 == <<"1", "2", "-", "0", "1", SP, "0", "8">>
Date3 == <<"1", "2", "-", "0", "3", SP, "0", "9">>

RawCols ==
    <<"InvoiceNo", "StockCode", "Description", "Quantity", "InvoiceDate",
      "UnitPrice", "CustomerID", "Country">>

GoodRaw ==
    [InvoiceNo |-> <<"5">>, StockCode |-> <<"A">>, Description |-> <<SP, "a", SP>>,
     Quantity |-> <<"2">>, InvoiceDate |-> Date1, UnitPrice |-> <<"3">>,
     CustomerID |-> <<"7">>, Country |-> <<"U", "K", SP>>]

RawFile(rows) == [cols |-> RawCols, rows |-> rows]

\* raw rows that differ in what split_sales_returns reads: a sale, a null
\* quantity, a null price, a negative quantity, a zero price, both null; each
\* on an invoice and on a credit note
SplitRawRows ==
    {[GoodRaw EXCEPT !.InvoiceNo = i, !.Quantity = qp[1], !.UnitPrice = qp[2]] :
        i \in {<<"5">>, <<"C", "5">>},
        qp \in {<<(<<"2">>), (<<"3">>)>>, <<(<<>>), (<<"3">>)>>,
                <<(<<"2">>), (<<>>)>>, <<(<<"-", "1">>), (<<"3">>)>>,
                <<(<<"2">>), (<<"0">>)>>, <<(<<>>), (<<>>)>>}}

\* raw rows that differ in what basic_clean coerces and drops; quantity and
\* price are both usable, or an unparsable quantity with a null price
CleanRawRows ==
    {[GoodRaw EXCEPT !.StockCode = s, !.Description = d, !.InvoiceDate = t,
                     !.CustomerID = c, !.Quantity = qp[1], !.UnitPrice = qp[2]] :
        s \in {<<>>, <<"A", SP>>},
        d \in {<<>>, <<TAB, "a">>},
        t \in {<<>>, <<"x">>, Date1},
        c \in {<<>>, <<"7">>},
        qp \in {<<(<<"x">>), (<<>>)>>, <<(<<"2">>), (<<"3">>)>>}}

\* raw sales rows that differ in what build_dimensions projects
DimRawRows ==
    {[GoodRaw EXCEPT !.InvoiceNo = i, !.InvoiceDate = t, !.CustomerID = c] :
        i \in {<<"5">>, <<"6">>},
        t \in {Date1, Date3},
        c \in {<<>>, <<"7">>}}

NoFiles == [f \in {} |-> NoDF]

InitMemory ==
    /\ raw = NoDF /\ df = NoDF /\ sales = NoDF /\ returns = NoDF
    /\ extras = NoExtras /\ log = <<>> /\ exc = NoExc /\ report = NoReport

\* clean.main() started with any flags, the raw file absent or holding rows
Init ==
    /\ pc = "start"
    /\ args \in [parquet : {0, 1}, dims : {0, 1}]
    /\ \/ disk = NoFiles
       \/ \E m \in 0..MaxRows : \E rows \in [1..m -> SplitRawRows] :
              disk = WriteFile(NoFiles, RawPath, RawFile(rows))
    /\ InitMemory

Next ==
    \/ CheckRaw
    \/ LoadRaw
    \/ BasicClean
    \/ SplitSalesReturns
    \/ BuildDimensions
    \/ SaveCsv
    \/ SaveParquet
    \/ SaveExtras
    \/ RunValidation

Spec == Init /\ [][Next]_vars

\* clean.main() up to basic_clean
CleanInit ==
    /\ pc = "start"
    /\ args = [parquet |-> 1, dims |-> 1]
    /\ \E m \in 0..MaxRows : \E rows \in [1..m -> CleanRawRows] :
           disk = WriteFile(NoFiles, RawPath, RawFile(rows))
    /\ InitMemory

CleanNext == CheckRaw \/ LoadRaw \/ BasicClean

CleanSpec == CleanInit /\ [][CleanNext]_vars

\* clean.main() up to build_dimensions
DimInit ==
    /\ pc = "start"
    /\ args = [parquet |-> 1, dims |-> 1]
    /\ \E m \in 0..MaxDimRows : \E rows \in [1..m -> DimRawRows] :
           disk = WriteFile(NoFiles, RawPath, RawFile(rows))
    /\ InitMemory

DimNext ==
    CheckRaw \/ LoadRaw \/ BasicClean \/ SplitSalesReturns \/ BuildDimensions

DimSpec == DimInit /\ [][DimNext]_vars

\* artifacts handed to validation.main(), not necessarily the cleaner's
GoodArtifactRow ==
    [invoice_no |-> <<"5">>, stock_code |-> <<"A">>, description |-> <<"a">>,
     quantity |-> <<"2">>, invoice_date |-> Date1, unit_price |-> <<"3">>,
     customer_id |-> <<"7">>, country |-> <<"U", "K">>,
     is_credit_note |-> FalseText, line_total |-> <<"6">>,
     invoice_date_date |-> <<"1", "2", "-", "0", "1">>,
     invoice_ym |-> <<"1", "2">>]

\* rows one of whose text fields begins or ends with a space or a tab
TrimArtifactRows ==
    {[GoodArtifactRow EXCEPT ![ft[1]] = ft[2]] :
        ft \in {<<"description", (<<SP, "a">>)>>, <<"description", (<<"a", SP>>)>>,
                <<"description", (<<TAB, "a">>)>>, <<"description", (<<"a", TAB>>)>>,
                <<"stock_code", (<<SP, "A">>)>>, <<"stock_code", (<<"A", TAB>>)>>,
                <<"country", (<<"U", "K", SP>>)>>, <<"country", (<<TAB, "U", "K">>)>>}}

\* rows whose invoice_date, quantity or unit_price is null or unparsable
DtypeArtifactRows ==
    {[GoodArtifactRow EXCEPT !.invoice_date = t, !.quantity = qp[1],
                             !.unit_price = qp[2]] :
        t \in {<<>>, <<"x">>, Date1},
        qp \in {<<(<<"2">>), (<<"3">>)>>, <<(<<>>), (<<"3">>)>>,
                <<(<<"x">>), (<<"3">>)>>, <<(<<"2">>), (<<>>)>>}}

ArtifactRows == TrimArtifactRows \cup DtypeArtifactRows

Without(cs, c) == SelectSeq(cs, LAMBDA x : x # c)

\* an artifact with one good row and without column c ("" for none missing)
ArtifactWithout(c) ==
    LET cols == Without(CleanCols, c) IN
    [cols |-> cols, rows |-> <<[x \in Range(cols) |-> GoodArtifactRow[x]]>>]

Artifact(rows) == [cols |-> CleanCols, rows |-> rows]

Artifacts(sfile, rfile) ==
    WriteFile(WriteFile(NoFiles, SalesCsv, sfile), ReturnsCsv, rfile)

\* validation.main() started on: rows dealt to the two artifacts; artifacts
\* that each lack at most one required column; a missing artifact
ValInit ==
    /\ pc = "done"
    /\ args = [parquet |-> 1, dims |-> 1]
    /\ \/ \E m \in 0..MaxValRows : \E rows \in [1..m -> ArtifactRows] :
              \E k \in 0..m :
                  disk = Artifacts(Artifact(SubSeq(rows, 1, k)),
                                   Artifact(SubSeq(rows, k + 1, m)))
       \/ \E c1, c2 \in Range(required_cols) \cup {""} :
              disk = Artifacts(ArtifactWithout(c1), ArtifactWithout(c2))
       \/ disk \in {NoFiles, WriteFile(NoFiles, SalesCsv, Artifact(<<>>))}
    /\ InitMemory

ValNext == RunValidation

ValSpec == ValInit /\ [][ValNext]_vars

----------------------------------------------------------------------------
(* Properties *)

Count(s, r) == Cardinality({i \in 1..Len(s) : s[i] = r})
Logged(tag) == tag \in Range(log)
LogPos(tag) == CHOOSE i \in 1..Len(log) : log[i] = tag

\* C1: after split_sales_returns every record of df is in exactly one of
\* Sales and Returns: the counts add up, no record is in both, none is dropped
C1_PartitionTotalDisjoint ==
    Logged("split") =>
        /\ Len(sales.rows) + Len(returns.rows) = Len(df.rows)
        /\ \A r \in Range(df.rows) :
              /\ Count(sales.rows, r) + Count(returns.rows, r) = Count(df.rows, r)
              /\ ~(r \in Range(sales.rows) /\ r \in Range(returns.rows))

\* C2: after split_sales_returns every record whose quantity or unit_price is
\* null is in Returns, whatever its is_credit_note
C2_NullNumericGoesToReturns ==
    Logged("split") =>
        \A r \in Range(df.rows) :
            (IsNa(r.quantity) \/ IsNa(r.unit_price)) =>
                Count(returns.rows, r) = Count(df.rows, r)

\* the text of field c in row r of an artifact, empty where the artifact
\* lacks the column
FieldText(r, c) == IF c \in DOMAIN r THEN r[c] ELSE <<>>
ArtifactRowsOnDisk == Range(disk[SalesCsv].rows) \cup Range(disk[ReturnsCsv].rows)
ArtifactColsOnDisk == Range(disk[SalesCsv].cols) \cup Range(disk[ReturnsCsv].cols)
BothArtifactsExist == Exists(SalesCsv) /\ Exists(ReturnsCsv)
ValidationRan == pc \in {"validated", "raised"} /\ BothArtifactsExist

\* the CheckResult of the returned report with the given name
Check(name) ==
    report.results[CHOOSE i \in 1..Len(report.results) :
                       report.results[i].check = name]

RuleNames ==
    <<"columns_present", "dtypes_basic(invoice_date/quantity/unit_price)",
      "trim_description", "trim_stock_code", "trim_country",
      "line_total_consistency", "quantity_positive_in_sales",
      "unit_price_positive_in_sales", "no_credit_notes_in_sales",
      "returns_nonempty_expected">>

\* C3: whenever both artifacts exist run_validation returns one CheckResult
\* per rule, in the rules' order; no rule's failure ends the run
C3_EveryRuleReported ==
    ValidationRan =>
        /\ pc = "validated"
        /\ SeqMap(LAMBDA x : x.check, report.results) = RuleNames

\* C4: when the Sales artifact lacks required columns, the report's
\* columns_present entry is ok=false and its detail lists exactly them
C4_MissingSalesColumnReported ==
    LET missing == SelectSeq(SortedRequired,
                             LAMBDA c : c \notin Range(disk[SalesCsv].cols))
    IN  (ValidationRan /\ missing # <<>>) =>
            /\ pc = "validated"
            /\ ~Check("columns_present").ok
            /\ Check("columns_present").detail = missing

\* what the rows of the raw file are expected to keep
RawRowKept(r) ==
    r.StockCode # <<>> /\ r.Description # <<>> /\ IsDateText(r.InvoiceDate)

InvoicePairs == {Project(r, InvoiceCols) : r \in Range(sales.rows)}
DimInvoicesRows == extras.dim_invoices.rows

EachPairOnce ==
    /\ Range(DimInvoicesRows) = InvoicePairs
    /\ Len(DimInvoicesRows) = Cardinality(InvoicePairs)

AscendingByDate ==
    \A i, j \in 1..Len(DimInvoicesRows) :
        i < j => TsLeq(DimInvoicesRows[i].invoice_date, DimInvoicesRows[j].invoice_date)

TiesAscendByInvoiceNo ==
    \A i, j \in 1..Len(DimInvoicesRows) :
        (i < j /\ DimInvoicesRows[i].invoice_date = DimInvoicesRows[j].invoice_date)
            => DimInvoicesRows[i].invoice_no.v < DimInvoicesRows[j].invoice_no.v

DimensionsBuilt == pc = "save_csv" /\ extras # NoExtras

\* C6 as stated: dim_invoices holds each distinct (invoice_no, invoice_date)
\* of Sales once, ascending by invoice_date, equal dates ascending by invoice_no
C6_InvoicesSortedTiesByInvoiceNo ==
    DimensionsBuilt => EachPairOnce /\ AscendingByDate /\ TiesAscendByInvoiceNo

\* C6 amended: dim_invoices holds each distinct (invoice_no, invoice_date) of
\* Sales once, ascending by invoice_date; equal dates come in no promised order
C6_InvoicesSortedByDate ==
    DimensionsBuilt => EachPairOnce /\ AscendingByDate

\* dim_invoices with two dates, one of them shared by two invoices that
\* appear in descending invoice_no order
C6_Witness ==
    /\ DimensionsBuilt
    /\ Len(DimInvoicesRows) = 3
    /\ DimInvoicesRows[1].invoice_date # DimInvoicesRows[3].invoice_date
    /\ ~TiesAscendByInvoiceNo

EdgeIn(t, chars) == Len(t) > 0 /\ (t[1] \in chars \/ t[Len(t)] \in chars)
TrimFields == {"description", "stock_code", "country"}

\* C7 as stated: each trim_* check is ok=true exactly when no row of Sales or
\* Returns has a leading or trailing whitespace character in that field
C7_TrimDetectsWhitespace ==
    pc = "validated" =>
        \A f \in TrimFields :
            Check("trim_" \o f).ok <=>
                ~\E r \in ArtifactRowsOnDisk : EdgeIn(FieldText(r, f), Whitespace)

\* C7 amended: each trim_* check is ok=true exactly when no row of Sales or
\* Returns has a leading or trailing space character in that field
C7_TrimDetectsSpaces ==
    pc = "validated" =>
        \A f \in TrimFields :
            Check("trim_" \o f).ok <=>
                ~\E r \in ArtifactRowsOnDisk : EdgeIn(FieldText(r, f), {SP})

\* a report where trim_description failed on a space while a country that
\* begins with a tab passed trim_country
C7_Witness ==
    /\ pc = "validated"
    /\ ~Check("trim_description").ok
    /\ Check("trim_country").ok
    /\ \E r \in ArtifactRowsOnDisk : EdgeIn(FieldText(r, "country"), {TAB})

DtypesName == "dtypes_basic(invoice_date/quantity/unit_price)"
DtypeCols == {"invoice_date", "quantity", "unit_price"}

\* C8 as stated: dtypes_basic is ok=true exactly when in every row
\* invoice_date parses as a timestamp and quantity and unit_price parse as
\* numbers; a null in any of the three makes it ok=false
C8_DtypesRejectsEveryNull ==
    pc = "validated" =>
        (Check(DtypesName).ok <=>
            /\ DtypeCols \subseteq ArtifactColsOnDisk
            /\ \A r \in ArtifactRowsOnDisk :
                  /\ IsDateText(FieldText(r, "invoice_date"))
                  /\ IsNumText(FieldText(r, "quantity"))
                  /\ IsNumText(FieldText(r, "unit_price")))

\* C8 amended: dtypes_basic is ok=true exactly when the three columns exist
\* and in every row invoice_date is null or parses as a timestamp and
\* quantity and unit_price are non-null and parse as numbers
C8_DtypesAcceptsNullDate ==
    pc = "validated" =>
        (Check(DtypesName).ok <=>
            /\ DtypeCols \subseteq ArtifactColsOnDisk
            /\ \A r \in ArtifactRowsOnDisk :
                  /\ FieldText(r, "invoice_date") = <<>>
                     \/ IsDateText(FieldText(r, "invoice_date"))
                  /\ IsNumText(FieldText(r, "quantity"))
                  /\ IsNumText(FieldText(r, "unit_price")))

\* a report whose dtypes_basic passed over a row with a null invoice_date
C8_Witness ==
    /\ pc = "validated"
    /\ Check(DtypesName).ok
    /\ \E r \in ArtifactRowsOnDisk : FieldText(r, "invoice_date") = <<>>
    /\ Cardinality(ArtifactRowsOnDisk) > 1

ParquetWarning == "warn parquet not written"
TextArtifactsWritten ==
    /\ BothArtifactsExist
    /\ disk[SalesCsv] = ToCsv(sales)
    /\ disk[ReturnsCsv] = ToCsv(returns)

\* C9: the Sales and Returns text artifacts are written before the Parquet
\* write is attempted; a failed Parquet write is logged as a warning, leaves
\* the text artifacts as written, does not end the run, the dimension
\* artifacts are written after it, and the run that has left save_outputs
\* has reported done
C9_ParquetFailureNotFatal ==
    /\ pc = "save_parquet" => TextArtifactsWritten
    /\ Logged(ParquetWarning) =>
          /\ pc \in {"save_extras", "done", "validated"}
          /\ TextArtifactsWritten
          /\ ~Exists(SalesParquet)
          /\ LogPos("save sales_csv") < LogPos(ParquetWarning)
          /\ LogPos("save returns_csv") < LogPos(ParquetWarning)
          /\ pc \in {"done", "validated"} =>
                /\ Logged("done")
                /\ args.dims # 0 =>
                      \A n \in Range(ExtraNames) :
                          /\ Exists(ExtraCsv(n))
                          /\ disk[ExtraCsv(n)] = ToCsv(extras[n])
                          /\ LogPos(ParquetWarning) < LogPos("save " \o n)
                          /\ LogPos("save " \o n) < LogPos("done")

\* a run with dimensions that finished after its Parquet write failed
C9_Witness ==
    /\ pc = "done"
    /\ Logged(ParquetWarning)
    /\ args.dims # 0
    /\ Len(sales.rows) > 0
    /\ Exists(ExtraCsv("dim_invoices"))

IsPositive(c) == c.k = "num" /\ c.v > 0
IsNonPositive(c) == c.k = "num" /\ c.v <= 0

\* C10: every record of Sales has is_credit_note false, quantity > 0 and
\* unit_price > 0; every record of Returns has is_credit_note true or
\* quantity <= 0 or unit_price <= 0; and validation of the artifacts the run
\* wrote returns a report whose three Sales checks are ok=true
C10_SalesAndReturnsSatisfyRule ==
    /\ Logged("split") =>
          /\ \A r \in Range(sales.rows) :
                /\ r.is_credit_note = B(FALSE)
                /\ IsPositive(r.quantity)
                /\ IsPositive(r.unit_price)
          /\ \A r \in Range(returns.rows) :
                \/ r.is_credit_note = B(TRUE)
                \/ IsNonPositive(r.quantity)
                \/ IsNonPositive(r.unit_price)
    /\ Logged("done") =>
          /\ pc \in {"done", "validated"}
          /\ pc = "validated" =>
                /\ Check("quantity_positive_in_sales").ok
                /\ Check("unit_price_positive_in_sales").ok
                /\ Check("no_credit_notes_in_sales").ok

\* a validated run whose Sales and Returns are both non-empty
C10_Witness ==
    /\ pc = "validated"
    /\ Len(sales.rows) > 0
    /\ Len(returns.rows) > 0
    /\ Len(disk[SalesCsv].rows) = Len(sales.rows)

====
